---- MODULE Spec2Model ----
(***************************************************************************)
(* A model of creack/goproxy: the default registry (registry/registry.go), *)
(* the load balancer loadBalance (goproxy.go) and the websocket tunnel     *)
(* (websocket.go).                                                         *)
(*                                                                         *)
(* Go slices are modelled as they are laid out: a slice value is a header  *)
(* (backing array, length) and the backing arrays live in a heap, so that  *)
(* two headers over one array see each other's writes.  Every slice of the *)
(* program starts at the first cell of its array; the capacity of a slice  *)
(* is the length of its array.                                             *)
(***************************************************************************)
EXTENDS Integers, Sequences, FiniteSets, TLC

\* ---------------------------------------------------------------- bounds
NProcs == 2
MaxCalls == 2
\* websocketProxy: bytes a connection holds unread, in each direction.
MaxBuf == 1
Window == 1
\* NewMultipleHostReverseProxy: the longest request path.
MaxPath == 6

Procs == 1..NProcs
Names == {"s1"}
Versions == {"v1", "v2"}
Endpoints == {"A", "B", "C"}
Pairs == Names \X Versions

\* The zero value of a Go string: what Delete writes to the vacated cell and
\* what the unused cells of a freshly allocated array hold.
Blank == ""

\* Registries the process may start with: an empty DefaultRegistry{} or a
\* composite literal for s1/v1 (as in example_test.go).
Seeds == { <<>>, <<"A", "B">>, <<"A", "B", "C">> }

\* The dial outcomes considered: every endpoint refuses the connection, or
\* only C accepts it.
AliveSets == { {}, {"C"} }

VARIABLES
    reg,      \* DefaultRegistry: name -> service map (0: no such key)
    maps,     \* the service maps: version -> slice header (ok: key present)
    heap,     \* the backing arrays of the endpoint slices
    writer,   \* lock: the process holding it exclusively (0: none)
    readers,  \* lock: the processes holding it shared
    alive,    \* the endpoints the dialer connects to; every other dial fails
    pc,       \* per process: its position in the call it runs
    call,     \* per process: the call it runs (or ran last) and its arguments
    loc,      \* per process: the locals of that call
    res,      \* per process: what the last finished call returned
    obs,      \* per process: a record of what the call did (history)
    ideal,    \* the registry as the Add and Delete calls alone determine it
    hist,     \* per pair: the Lookup outcomes the registry had with the lock free
    ncalls,   \* calls started so far
    \* websocketProxy: one request served by the tunnel handler
    wpc,      \* the handler's position
    cpc,      \* the position of each copy goroutine ("none": not started)
    conn,     \* sourceConn / targetConn: "none", "open" or "closed" (by the proxy)
    peer,     \* per connection: has the remote end closed it
    inbuf,    \* per connection: bytes received and not yet read
    sent,     \* per connection: bytes written to it that the remote end has not read
    held,     \* per copy goroutine: bytes read and not yet written
    ch,       \* the join channel: [n: buffered values, closed]
    status,   \* the HTTP status written to the client (0: none)
    \* NewMultipleHostReverseProxy: one request served by the proxy handler
    hpc,      \* the handler's position
    reqPath,  \* req.URL.Path as the request arrived
    urlPath,  \* req.URL.Path
    header,   \* req.Header: the Connection and Upgrade values
    nv,       \* name, version, err of ExtractNameVersion
    route,    \* the handler chosen: "websocketProxy" or "reverseProxy"
    urlHost,  \* req1.URL.Host as the Director sets it
    dial,     \* Transport.Dial: its error and the LoadBalance call it makes
    hstatus   \* the HTTP status the proxy handler itself writes (0: none)

rvars == <<reg, maps, heap, writer, readers, alive, pc, call, loc, res, obs,
           ideal, hist, ncalls>>
tvars == <<wpc, cpc, conn, peer, inbuf, sent, held, ch, status>>
dvars == <<hpc, reqPath, urlPath, header, nv, route, urlHost, dial, hstatus>>
vars == <<rvars, tvars, dvars>>

\* ------------------------------------------------------------ slices
NoKey == [ok |-> FALSE, arr |-> 0, len |-> 0]
NilSlice == [arr |-> 0, len |-> 0]

Cap(h) == IF h.arr = 0 THEN 0 ELSE Len(heap[h.arr])

\* The elements a slice header denotes over the heap hp.
ElemsIn(hp, h) == IF h.len = 0 THEN <<>> ELSE SubSeq(hp[h.arr], 1, h.len)
Elems(h) == ElemsIn(heap, h)

Count(s, e) == Cardinality({k \in 1..Len(s) : s[k] = e})
Filter(s, e) == SelectSeq(s, LAMBDA x : x # e)
Pad(n) == [k \in 1..n |-> Blank]

\* r[name][version] with its ok flag, over a given registry state.
EntryIn(rg, mp, n, v) == IF rg[n] = 0 THEN NoKey ELSE mp[rg[n]][v]
Entry(n, v) == EntryIn(reg, maps, n, v)

\* What Lookup(n, v) returns in a given state: (targets, found).
ViewIn(rg, mp, hp, n, v) ==
    LET e == EntryIn(rg, mp, n, v)
    IN  IF e.ok THEN [ok |-> TRUE, targets |-> ElemsIn(hp, e)]
        ELSE [ok |-> FALSE, targets |-> <<>>]
View(n, v) == ViewIn(reg, maps, heap, n, v)
NotFound == [ok |-> FALSE, targets |-> <<>>]

\* The capacity append gives a new array when the old one is full.
GrowCap(c) == IF c = 0 THEN 1 ELSE 2 * c

\* cells i+1 .. n-1 (0-based) of array a moved one to the left:
\* copy(s[i:], s[i+1:]) for a slice s of length n, and append(s[:i], s[i+1:]...).
ShiftLeft(a, i, n) ==
    [k \in 1..Len(a) |-> IF k >= i + 1 /\ k <= n - 1 THEN a[k + 1] ELSE a[k]]

\* ------------------------------------------------------------- state
NoCall == [op |-> "none", name |-> "s1", version |-> "v1", endpoint |-> Blank]
NoLoc == [service |-> 0, endpoints |-> NilSlice, rng |-> NilSlice, i |-> 0,
          endpoint |-> Blank]
NoRes == [err |-> "none", targets |-> NilSlice, conn |-> Blank]
NoObs == [pre |-> NotFound, snap |-> <<>>, dialed |-> <<>>, failure |-> <<>>]

Hist(rg, mp, hp, w, h) ==
    [pr \in Pairs |->
        IF w = 0 THEN h[pr] \cup {ViewIn(rg, mp, hp, pr[1], pr[2])} ELSE h[pr]]

RegInit(seed, al) ==
    /\ IF seed = <<>>
       THEN /\ reg = [n \in Names |-> 0]
            /\ maps = <<>>
            /\ heap = <<>>
            /\ ideal = [pr \in Pairs |-> NotFound]
       ELSE /\ reg = [n \in Names |-> 1]
            /\ maps = << [v \in Versions |->
                            IF v = "v1"
                            THEN [ok |-> TRUE, arr |-> 1, len |-> Len(seed)]
                            ELSE NoKey] >>
            /\ heap = << seed >>
            /\ ideal = [pr \in Pairs |->
                          IF pr[2] = "v1"
                          THEN [ok |-> TRUE, targets |-> seed]
                          ELSE NotFound]
    /\ writer = 0
    /\ readers = {}
    /\ alive = al
    /\ pc = [p \in Procs |-> "idle"]
    /\ call = [p \in Procs |-> NoCall]
    /\ loc = [p \in Procs |-> NoLoc]
    /\ res = [p \in Procs |-> NoRes]
    /\ obs = [p \in Procs |-> NoObs]
    /\ hist = Hist(reg, maps, heap, 0, [pr \in Pairs |-> {}])
    /\ ncalls = 0

Conns == {"source", "target"}
Copies == {1, 2}

\* A request has reached the handler returned by websocketProxy.
TunnelInit ==
    /\ wpc = "LoadBalance"
    /\ cpc = [g \in Copies |-> "none"]
    /\ conn = [c \in Conns |-> "none"]
    /\ peer = [c \in Conns |-> FALSE]
    /\ inbuf = [c \in Conns |-> 0]
    /\ sent = [c \in Conns |-> 0]
    /\ held = [g \in Copies |-> 0]
    /\ ch = [n |-> 0, closed |-> FALSE]
    /\ status = 0

\* No request is at the proxy handler.
NoNV == [name |-> <<>>, version |-> <<>>, err |-> "none"]
NoDial == [err |-> "none", name |-> <<>>, version |-> <<>>]
NoHeader == [Connection |-> <<>>, Upgrade |-> <<>>]
ProxyIdle ==
    /\ hpc = "idle"
    /\ reqPath = <<>>
    /\ urlPath = <<>>
    /\ header = NoHeader
    /\ nv = NoNV
    /\ route = "none"
    /\ urlHost = <<>>
    /\ dial = NoDial
    /\ hstatus = 0

Init ==
    /\ \E seed \in Seeds, al \in AliveSets : RegInit(seed, al)
    /\ TunnelInit
    /\ ProxyIdle

\* Every step records the Lookup outcomes of the state it leaves with the lock free.
Record ==
    /\ hist' = Hist(reg', maps', heap', writer', hist)
    /\ UNCHANGED <<tvars, dvars>>

Begin(p, op, n, v, e, first) ==
    /\ pc[p] = "idle"
    /\ ncalls < MaxCalls
    /\ ncalls' = ncalls + 1
    /\ call' = [call EXCEPT ![p] = [op |-> op, name |-> n, version |-> v,
                                    endpoint |-> e]]
    /\ pc' = [pc EXCEPT ![p] = first]
    /\ loc' = [loc EXCEPT ![p] = NoLoc]
    /\ res' = [res EXCEPT ![p] = NoRes]
    /\ obs' = [obs EXCEPT ![p] = NoObs]
    /\ UNCHANGED <<reg, maps, heap, writer, readers, alive, ideal, hist>>
    /\ UNCHANGED <<tvars, dvars>>

\* A caller invokes reg.Add / reg.Delete / reg.Lookup / loadBalance.
CallAdd(p) ==
    \E n \in Names, v \in Versions, e \in Endpoints : Begin(p, "Add", n, v, e, "AddLock")
CallDelete(p) ==
    \E n \in Names, v \in Versions, e \in Endpoints :
        Begin(p, "Delete", n, v, e, "DelLock")
CallLookup(p) ==
    \E n \in Names, v \in Versions : Begin(p, "Lookup", n, v, Blank, "LookupRLock")
CallLoadBalance(p) ==
    \E n \in Names, v \in Versions : Begin(p, "loadBalance", n, v, Blank, "LookupRLock")

\* ------------------------------------------------------ sync.RWMutex
\* A lock that does not exclude: Lock returns at once.
LockNoWait(p) ==
    /\ writer' = p
    /\ UNCHANGED readers
\* lock.Lock(): waits until no reader and no writer holds the lock.
Lock(p) ==
    /\ writer = 0
    /\ readers = {}
    /\ writer' = p
    /\ UNCHANGED readers
\* lock.Unlock()
Unlock(p) ==
    /\ writer' = 0
    /\ UNCHANGED readers
\* lock.RLock(): waits until no writer holds the lock.
RLock(p) ==
    /\ writer = 0
    /\ readers' = readers \cup {p}
    /\ UNCHANGED writer
\* lock.RUnlock()
RUnlock(p) ==
    /\ readers' = readers \ {p}
    /\ UNCHANGED writer

\* --------------------------------------------------- DefaultRegistry.Add
AddLock(p) ==
    /\ pc[p] = "AddLock"
    /\ Lock(p)
    /\ pc' = [pc EXCEPT ![p] = "AddService"]
    /\ obs' = [obs EXCEPT ![p].pre = View(call[p].name, call[p].version)]
    /\ UNCHANGED <<reg, maps, heap, alive, call, loc, res, ideal, ncalls>>
    /\ Record

\* service, ok := r[name]
AddService(p) ==
    /\ pc[p] = "AddService"
    /\ loc' = [loc EXCEPT ![p].service = reg[call[p].name]]
    /\ pc' = [pc EXCEPT ![p] = "AddCreate"]
    /\ UNCHANGED <<reg, maps, heap, writer, readers, alive, call, res, obs, ideal,
                   ncalls>>
    /\ Record

\* Add without the  if !ok  test: the service map is replaced on every call.
AddCreateAlways(p) ==
    /\ pc[p] = "AddCreate"
    /\ maps' = Append(maps, [v \in Versions |-> NoKey])
    /\ reg' = [reg EXCEPT ![call[p].name] = Len(maps) + 1]
    /\ loc' = [loc EXCEPT ![p].service = Len(maps) + 1]
    /\ pc' = [pc EXCEPT ![p] = "AddAppend"]
    /\ UNCHANGED <<heap, writer, readers, alive, call, res, obs, ideal, ncalls>>
    /\ Record

\* if !ok { service = map[string][]string{}; r[name] = service }
AddCreate(p) ==
    /\ pc[p] = "AddCreate"
    /\ IF loc[p].service = 0
       THEN /\ maps' = Append(maps, [v \in Versions |-> NoKey])
            /\ reg' = [reg EXCEPT ![call[p].name] = Len(maps) + 1]
            /\ loc' = [loc EXCEPT ![p].service = Len(maps) + 1]
       ELSE UNCHANGED <<reg, maps, loc>>
    /\ pc' = [pc EXCEPT ![p] = "AddAppend"]
    /\ UNCHANGED <<heap, writer, readers, alive, call, res, obs, ideal, ncalls>>
    /\ Record

\* append(s, e) for the slice header s: in place when the array has a free
\* cell, else into a new array of capacity GrowCap.  Gives <<heap, header>>.
SliceAppend(s, e) ==
    IF s.len < Cap(s)
    THEN << [heap EXCEPT ![s.arr][s.len + 1] = e],
            [arr |-> s.arr, len |-> s.len + 1] >>
    ELSE << Append(heap, Elems(s) \o <<e>> \o Pad(GrowCap(Cap(s)) - s.len - 1)),
            [arr |-> Len(heap) + 1, len |-> s.len + 1] >>

IdealAdd(pr, e) ==
    [ideal EXCEPT ![pr] = [ok |-> TRUE, targets |-> Append(@.targets, e)]]

\* service[version] = append(service[version], endpoint)
AddAppend(p) ==
    /\ pc[p] = "AddAppend"
    /\ LET m == loc[p].service
           v == call[p].version
           r == SliceAppend([arr |-> maps[m][v].arr, len |-> maps[m][v].len],
                            call[p].endpoint)
       IN  /\ heap' = r[1]
           /\ maps' = [maps EXCEPT ![m][v] =
                         [ok |-> TRUE, arr |-> r[2].arr, len |-> r[2].len]]
    /\ ideal' = IdealAdd(<<call[p].name, call[p].version>>, call[p].endpoint)
    /\ pc' = [pc EXCEPT ![p] = "AddUnlock"]
    /\ UNCHANGED <<reg, writer, readers, alive, call, loc, res, obs, ncalls>>
    /\ Record

\* defer lock.Unlock()
AddUnlock(p) ==
    /\ pc[p] = "AddUnlock"
    /\ Unlock(p)
    /\ pc' = [pc EXCEPT ![p] = "done"]
    /\ UNCHANGED <<reg, maps, heap, alive, call, loc, res, obs, ideal, ncalls>>
    /\ Record

AddNext(p) ==
    AddLock(p) \/ AddService(p) \/ AddCreate(p) \/ AddAppend(p) \/ AddUnlock(p)

\* ------------------------------------------------ DefaultRegistry.Delete
DelLock(p) ==
    /\ pc[p] = "DelLock"
    /\ Lock(p)
    /\ pc' = [pc EXCEPT ![p] = "DelService"]
    /\ obs' = [obs EXCEPT ![p].pre = View(call[p].name, call[p].version)]
    /\ UNCHANGED <<reg, maps, heap, alive, call, loc, res, ideal, ncalls>>
    /\ Record

IdealDelete(pr, e) ==
    IF ideal[pr].ok
    THEN [ideal EXCEPT ![pr].targets = Filter(@, e)]
    ELSE ideal

\* Delete whose early return for an unknown service skips the Unlock.
DelServiceKeepsLock(p) ==
    /\ pc[p] = "DelService"
    /\ LET n == call[p].name
           v == call[p].version
       IN  IF reg[n] = 0
           THEN /\ pc' = [pc EXCEPT ![p] = "done"]
                /\ UNCHANGED loc
           ELSE /\ pc' = [pc EXCEPT ![p] = "DelScan"]
                /\ loc' = [loc EXCEPT ![p].service = reg[n],
                                      ![p].rng = [arr |-> maps[reg[n]][v].arr,
                                                  len |-> maps[reg[n]][v].len],
                                      ![p].i = 0]
    /\ ideal' = IdealDelete(<<call[p].name, call[p].version>>, call[p].endpoint)
    /\ UNCHANGED <<reg, maps, heap, writer, readers, alive, call, res, obs, ncalls>>
    /\ Record
\* service, ok := r[name]; if !ok { return }
\* begin: the range expression service[version] is evaluated once per scan.
DelService(p) ==
    /\ pc[p] = "DelService"
    /\ LET n == call[p].name
           v == call[p].version
       IN  IF reg[n] = 0
           THEN /\ pc' = [pc EXCEPT ![p] = "DelUnlock"]
                /\ UNCHANGED loc
           ELSE /\ pc' = [pc EXCEPT ![p] = "DelScan"]
                /\ loc' = [loc EXCEPT ![p].service = reg[n],
                                      ![p].rng = [arr |-> maps[reg[n]][v].arr,
                                                  len |-> maps[reg[n]][v].len],
                                      ![p].i = 0]
    /\ ideal' = IdealDelete(<<call[p].name, call[p].version>>, call[p].endpoint)
    /\ UNCHANGED <<reg, maps, heap, writer, readers, alive, call, res, obs, ncalls>>
    /\ Record

\* Delete without  goto begin: after a removal the scan goes on at i+1 over the
\* length the range saw at first.
DelScanNoRestart(p) ==
    /\ pc[p] = "DelScan"
    /\ LET m == loc[p].service
           v == call[p].version
           i == loc[p].i
           s == maps[m][v]
       IN  IF i >= loc[p].rng.len
           THEN /\ pc' = [pc EXCEPT ![p] = "DelUnlock"]
                /\ UNCHANGED <<maps, heap, loc>>
           ELSE IF heap[loc[p].rng.arr][i + 1] = call[p].endpoint
           THEN /\ heap' = [heap EXCEPT ![s.arr] =
                              [ShiftLeft(@, i, s.len) EXCEPT ![s.len] = Blank]]
                /\ maps' = [maps EXCEPT ![m][v].len = s.len - 1]
                /\ loc' = [loc EXCEPT ![p].i = i + 1]
                /\ UNCHANGED pc
           ELSE /\ loc' = [loc EXCEPT ![p].i = i + 1]
                /\ UNCHANGED <<maps, heap, pc>>
    /\ UNCHANGED <<reg, writer, readers, alive, call, res, obs, ideal, ncalls>>
    /\ Record

\* Delete that fills the hole with the last element instead of shifting.
DelScanSwapLast(p) ==
    /\ pc[p] = "DelScan"
    /\ LET m == loc[p].service
           v == call[p].version
           i == loc[p].i
           s == maps[m][v]
       IN  IF i >= loc[p].rng.len
           THEN /\ pc' = [pc EXCEPT ![p] = "DelUnlock"]
                /\ UNCHANGED <<maps, heap, loc>>
           ELSE IF heap[loc[p].rng.arr][i + 1] = call[p].endpoint
           THEN /\ heap' = [heap EXCEPT ![s.arr] =
                              [[@ EXCEPT ![i + 1] = heap[s.arr][s.len]]
                                  EXCEPT ![s.len] = Blank]]
                /\ maps' = [maps EXCEPT ![m][v].len = s.len - 1]
                /\ loc' = [loc EXCEPT ![p].rng = [arr |-> s.arr, len |-> s.len - 1],
                                      ![p].i = 0]
                /\ UNCHANGED pc
           ELSE /\ loc' = [loc EXCEPT ![p].i = i + 1]
                /\ UNCHANGED <<maps, heap, pc>>
    /\ UNCHANGED <<reg, writer, readers, alive, call, res, obs, ideal, ncalls>>
    /\ Record
\* One iteration of  for i, svc := range service[version]:
\* the loop ends when i reaches the length the range saw; svc is read from the
\* array; on a match the element is removed in place, the vacated last cell is
\* blanked, the slice is shortened and the scan restarts (goto begin).
DelScan(p) ==
    /\ pc[p] = "DelScan"
    /\ LET m == loc[p].service
           v == call[p].version
           i == loc[p].i
           s == maps[m][v]
       IN  IF i >= loc[p].rng.len
           THEN /\ pc' = [pc EXCEPT ![p] = "DelUnlock"]
                /\ UNCHANGED <<maps, heap, loc>>
           ELSE IF heap[loc[p].rng.arr][i + 1] = call[p].endpoint
           THEN /\ heap' = [heap EXCEPT ![s.arr] =
                              [ShiftLeft(@, i, s.len) EXCEPT ![s.len] = Blank]]
                /\ maps' = [maps EXCEPT ![m][v].len = s.len - 1]
                /\ loc' = [loc EXCEPT ![p].rng = [arr |-> s.arr, len |-> s.len - 1],
                                      ![p].i = 0]
                /\ UNCHANGED pc
           ELSE /\ loc' = [loc EXCEPT ![p].i = i + 1]
                /\ UNCHANGED <<maps, heap, pc>>
    /\ UNCHANGED <<reg, writer, readers, alive, call, res, obs, ideal, ncalls>>
    /\ Record

\* defer lock.Unlock()
DelUnlock(p) ==
    /\ pc[p] = "DelUnlock"
    /\ Unlock(p)
    /\ pc' = [pc EXCEPT ![p] = "done"]
    /\ UNCHANGED <<reg, maps, heap, alive, call, loc, res, obs, ideal, ncalls>>
    /\ Record

DelNext(p) == DelLock(p) \/ DelService(p) \/ DelScan(p) \/ DelUnlock(p)

\* ------------------------------------------------ DefaultRegistry.Lookup
LookupRLock(p) ==
    /\ pc[p] = "LookupRLock"
    /\ RLock(p)
    /\ pc' = [pc EXCEPT ![p] = "LookupRead"]
    /\ UNCHANGED <<reg, maps, heap, alive, call, loc, res, obs, ideal, ncalls>>
    /\ Record

\* A Lookup that does not test ok: a missing key gives the nil slice, no error.
LookupReadUnchecked(p) ==
    /\ pc[p] = "LookupRead"
    /\ RUnlock(p)
    /\ LET e == Entry(call[p].name, call[p].version)
           targets == [arr |-> e.arr, len |-> e.len]
       IN  IF call[p].op = "Lookup"
           THEN /\ res' = [res EXCEPT ![p].err = "nil", ![p].targets = targets]
                /\ pc' = [pc EXCEPT ![p] = "done"]
                /\ obs' = [obs EXCEPT ![p].snap = Elems(targets)]
                /\ UNCHANGED loc
           ELSE /\ loc' = [loc EXCEPT ![p].endpoints = targets]
                /\ obs' = [obs EXCEPT ![p].snap = Elems(targets)]
                /\ pc' = [pc EXCEPT ![p] = "Pick"]
                /\ UNCHANGED res
    /\ UNCHANGED <<reg, maps, heap, alive, call, ideal, ncalls>>
    /\ Record
\* targets, ok := r[name][version]; lock.RUnlock(); the result is the slice
\* header stored in the map, or ErrServiceNotFound when the key is absent.
\* Called from loadBalance, the result becomes its local  endpoints.
LookupRead(p) ==
    /\ pc[p] = "LookupRead"
    /\ RUnlock(p)
    /\ LET e == Entry(call[p].name, call[p].version)
           targets == [arr |-> e.arr, len |-> e.len]
       IN  IF ~e.ok
           THEN /\ res' = [res EXCEPT ![p].err = "ErrServiceNotFound"]
                /\ pc' = [pc EXCEPT ![p] = "done"]
                /\ UNCHANGED <<loc, obs>>
           ELSE IF call[p].op = "Lookup"
           THEN /\ res' = [res EXCEPT ![p].err = "nil", ![p].targets = targets]
                /\ pc' = [pc EXCEPT ![p] = "done"]
                /\ obs' = [obs EXCEPT ![p].snap = Elems(targets)]
                /\ UNCHANGED loc
           ELSE /\ loc' = [loc EXCEPT ![p].endpoints = targets]
                /\ obs' = [obs EXCEPT ![p].snap = Elems(targets)]
                /\ pc' = [pc EXCEPT ![p] = "Pick"]
                /\ UNCHANGED res
    /\ UNCHANGED <<reg, maps, heap, alive, call, ideal, ncalls>>
    /\ Record

LookupNext(p) == LookupRLock(p) \/ LookupRead(p)

\* ------------------------------------------------------------ loadBalance
\* if len(endpoints) == 0 { break }  ->  "No endpoint available"
\* i := rand.Int() % len(endpoints); endpoint := endpoints[i]
Pick(p) ==
    /\ pc[p] = "Pick"
    /\ LET s == loc[p].endpoints
       IN  IF s.len = 0
           THEN /\ res' = [res EXCEPT ![p].err = "NoEndpointAvailable"]
                /\ pc' = [pc EXCEPT ![p] = "done"]
                /\ UNCHANGED <<loc, obs>>
           ELSE /\ \E i \in 0..(s.len - 1) :
                     /\ loc' = [loc EXCEPT ![p].i = i,
                                           ![p].endpoint = heap[s.arr][i + 1]]
                     /\ obs' = [obs EXCEPT ![p].dialed =
                                             Append(@, heap[s.arr][i + 1])]
                /\ pc' = [pc EXCEPT ![p] = "Dial"]
                /\ UNCHANGED res
    /\ UNCHANGED <<reg, maps, heap, writer, readers, alive, call, ideal, ncalls>>
    /\ Record

\* endpoints = append(endpoints[:i], endpoints[i+1:]...): the cells after i of
\* the slice's own array move one to the left; the result is one shorter.
RemoveLocal(s, i) ==
    << [heap EXCEPT ![s.arr] = ShiftLeft(@, i, s.len)],
       [arr |-> s.arr, len |-> s.len - 1] >>

\* conn, err := dialer(network, endpoint)
\* err == nil: return conn, nil.
\* err != nil: reg.Failure(...) (the default hook only logs), the endpoint is
\* taken out of the local list and the loop goes on.
Dial(p) ==
    /\ pc[p] = "Dial"
    /\ IF loc[p].endpoint \in alive
       THEN /\ res' = [res EXCEPT ![p].err = "nil", ![p].conn = loc[p].endpoint]
            /\ pc' = [pc EXCEPT ![p] = "done"]
            /\ UNCHANGED <<heap, loc, obs>>
       ELSE /\ obs' = [obs EXCEPT ![p].failure = Append(@, loc[p].endpoint)]
            /\ LET r == RemoveLocal(loc[p].endpoints, loc[p].i)
               IN  /\ heap' = r[1]
                   /\ loc' = [loc EXCEPT ![p].endpoints = r[2]]
            /\ pc' = [pc EXCEPT ![p] = "Pick"]
            /\ UNCHANGED res
    /\ UNCHANGED <<reg, maps, writer, readers, alive, call, ideal, ncalls>>
    /\ Record

loadBalance(p) == Pick(p) \/ Dial(p)

\* The call has returned to its caller, which drops the result.
Return(p) ==
    /\ pc[p] = "done"
    /\ pc' = [pc EXCEPT ![p] = "idle"]
    /\ call' = [call EXCEPT ![p] = NoCall]
    /\ loc' = [loc EXCEPT ![p] = NoLoc]
    /\ res' = [res EXCEPT ![p] = NoRes]
    /\ obs' = [obs EXCEPT ![p] = NoObs]
    /\ UNCHANGED <<reg, maps, heap, writer, readers, alive, ideal, hist, ncalls>>
    /\ UNCHANGED <<tvars, dvars>>

\* ------------------------------------------------------ specifications
Calls(p) ==
    CallAdd(p) \/ CallDelete(p) \/ CallLookup(p) \/ CallLoadBalance(p) \/ Return(p)

Next == \E p \in Procs :
           Calls(p) \/ AddNext(p) \/ DelNext(p) \/ LookupNext(p) \/ loadBalance(p)

Spec == Init /\ [][Next]_vars

\* The registry package with callers that only read what Lookup returns.
RegNext == \E p \in Procs :
              \/ CallAdd(p) \/ CallDelete(p) \/ CallLookup(p) \/ Return(p)
              \/ AddNext(p) \/ DelNext(p) \/ LookupNext(p)

RegSpec == Init /\ [][RegNext]_vars

\* ----------------------------------------------- DefaultRegistry.Failure
CallFailure(p) ==
    \E n \in Names, v \in Versions : Begin(p, "Failure", n, v, "A", "Failure")

\* Failure(name, version, endpoint, err): log.Printf(...) and nothing else; it
\* takes no lock.
Failure(p) ==
    /\ pc[p] = "Failure"
    /\ pc' = [pc EXCEPT ![p] = "done"]
    /\ UNCHANGED <<reg, maps, heap, writer, readers, alive, call, loc, res, obs,
                   ideal, ncalls>>
    /\ Record

\* The registry with concurrent Add, Delete, Lookup and Failure calls.
LockInit ==
    /\ \E seed \in Seeds : RegInit(seed, {})
    /\ TunnelInit
    /\ ProxyIdle

\* The steps of the call process p is in.
Step(p) == AddNext(p) \/ DelNext(p) \/ LookupNext(p) \/ Failure(p)

LockNext == \E p \in Procs :
               \/ CallAdd(p) \/ CallDelete(p) \/ CallLookup(p) \/ CallFailure(p)
               \/ Return(p)
               \/ Step(p)

\* Every goroutine that can take a step is run, and sync.RWMutex lets no
\* waiting Lock or RLock starve.
LockFair == \A p \in Procs : SF_vars(Step(p))

LockSpec == LockInit /\ [][LockNext]_vars /\ LockFair

\* ------------------------------------------------- websocketProxy (tunnel)
\* The handler runs its LoadBalance call as process 1.
Handler == 1
\* A join channel with room for one signal only.
ChanCapOne == 2 - 1
\* ch := make(chan error, 2)
ChanCap == 2

\* io.Copy(dst, src) of each copy goroutine: 1 is client to backend, 2 is
\* backend to client.
Src(g) == IF g = 1 THEN "source" ELSE "target"
Dst(g) == IF g = 1 THEN "target" ELSE "source"

\* A return that runs no deferred Close.
ReturnsAtOnce == "Returned"
\* The deferred Close calls run on return, last registered first.
Deferred == IF conn["source"] # "none" THEN "DeferSource" ELSE "DeferTarget"

\* targetConn, err := LoadBalance("tcp", name, version, reg)
WsCall ==
    /\ wpc = "LoadBalance"
    /\ CallLoadBalance(Handler)

\* err != nil: http.Error(w, ..., http.StatusInternalServerError); return.
\* Otherwise defer targetConn.Close().
WsLoadBalance ==
    /\ wpc = "LoadBalance"
    /\ pc[Handler] = "done"
    /\ call[Handler].op = "loadBalance"
    /\ IF res[Handler].err # "nil"
       THEN /\ status' = 500
            /\ wpc' = "Returned"
            /\ UNCHANGED conn
       ELSE /\ conn' = [conn EXCEPT !["target"] = "open"]
            /\ wpc' = "CheckHijacker"
            /\ UNCHANGED status
    /\ pc' = [pc EXCEPT ![Handler] = "idle"]
    /\ call' = [call EXCEPT ![Handler] = NoCall]
    /\ loc' = [loc EXCEPT ![Handler] = NoLoc]
    /\ res' = [res EXCEPT ![Handler] = NoRes]
    /\ obs' = [obs EXCEPT ![Handler] = NoObs]
    /\ UNCHANGED <<reg, maps, heap, writer, readers, alive, ideal, hist, ncalls>>
    /\ UNCHANGED <<cpc, peer, inbuf, sent, held, ch>>
    /\ UNCHANGED dvars

\* hijacker, ok := w.(http.Hijacker); !ok: http.Error(w, ..., 500); return.
WsCheckHijacker ==
    /\ wpc = "CheckHijacker"
    /\ \/ /\ wpc' = "Hijack"
          /\ UNCHANGED status
       \/ /\ status' = 500
          /\ wpc' = Deferred
    /\ UNCHANGED <<cpc, conn, peer, inbuf, sent, held, ch>>
    /\ UNCHANGED <<rvars, dvars>>

\* sourceConn, _, err := hijacker.Hijack(); err != nil: return.
\* Otherwise defer sourceConn.Close().
WsHijack ==
    /\ wpc = "Hijack"
    /\ \/ /\ conn' = [conn EXCEPT !["source"] = "open"]
          /\ wpc' = "ReqWrite"
       \/ /\ wpc' = Deferred
          /\ UNCHANGED conn
    /\ UNCHANGED <<cpc, peer, inbuf, sent, held, ch, status>>
    /\ UNCHANGED <<rvars, dvars>>

\* A Write of one unit on connection c by the proxy: it fails on a connection
\* the proxy has closed; once the remote end has closed, it is accepted or
\* fails; otherwise it waits for room in the remote end's window.
\* ok is the outcome (TRUE: written).
ConnWrite(c, ok) ==
    IF conn[c] = "closed" THEN /\ ~ok
                               /\ UNCHANGED sent
    ELSE IF peer[c] THEN UNCHANGED sent
    ELSE /\ ok
         /\ sent[c] < Window
         /\ sent' = [sent EXCEPT ![c] = @ + 1]

\* if err := req.Write(targetConn); err != nil { return }
WsReqWrite ==
    /\ wpc = "ReqWrite"
    /\ \E ok \in BOOLEAN :
          /\ ConnWrite("target", ok)
          /\ wpc' = IF ok THEN "Go1" ELSE Deferred
    /\ UNCHANGED <<cpc, conn, peer, inbuf, held, ch, status>>
    /\ UNCHANGED <<rvars, dvars>>

\* ch := make(chan error, 2); go func() { io.Copy(targetConn, sourceConn) ... }()
WsGo1 ==
    /\ wpc = "Go1"
    /\ cpc' = [cpc EXCEPT ![1] = "Read"]
    /\ wpc' = "Go2"
    /\ UNCHANGED <<conn, peer, inbuf, sent, held, ch, status>>
    /\ UNCHANGED <<rvars, dvars>>

\* go func() { io.Copy(sourceConn, targetConn) ... }()
WsGo2 ==
    /\ wpc = "Go2"
    /\ cpc' = [cpc EXCEPT ![2] = "Read"]
    /\ wpc' = "Recv1"
    /\ UNCHANGED <<conn, peer, inbuf, sent, held, ch, status>>
    /\ UNCHANGED <<rvars, dvars>>

\* A handler that waits for one completion signal only.
WsRecvOne ==
    /\ wpc \in {"Recv1", "Recv2"}
    /\ ch.n > 0
    /\ ch' = [ch EXCEPT !.n = @ - 1]
    /\ wpc' = "CloseCh"
    /\ UNCHANGED <<cpc, conn, peer, inbuf, sent, held, status>>
    /\ UNCHANGED <<rvars, dvars>>
\* <-ch (twice): waits for a value in the channel.
WsRecv ==
    /\ wpc \in {"Recv1", "Recv2"}
    /\ ch.n > 0
    /\ ch' = [ch EXCEPT !.n = @ - 1]
    /\ wpc' = IF wpc = "Recv1" THEN "Recv2" ELSE "CloseCh"
    /\ UNCHANGED <<cpc, conn, peer, inbuf, sent, held, status>>
    /\ UNCHANGED <<rvars, dvars>>

\* close(ch), and the handler returns.
WsCloseCh ==
    /\ wpc = "CloseCh"
    /\ ch' = [ch EXCEPT !.closed = TRUE]
    /\ wpc' = Deferred
    /\ UNCHANGED <<cpc, conn, peer, inbuf, sent, held, status>>
    /\ UNCHANGED <<rvars, dvars>>

\* defer sourceConn.Close()
WsDeferSource ==
    /\ wpc = "DeferSource"
    /\ conn' = [conn EXCEPT !["source"] = "closed"]
    /\ wpc' = "DeferTarget"
    /\ UNCHANGED <<cpc, peer, inbuf, sent, held, ch, status>>
    /\ UNCHANGED <<rvars, dvars>>

\* defer targetConn.Close()
WsDeferTarget ==
    /\ wpc = "DeferTarget"
    /\ conn' = [conn EXCEPT !["target"] = "closed"]
    /\ wpc' = "Returned"
    /\ UNCHANGED <<cpc, peer, inbuf, sent, held, ch, status>>
    /\ UNCHANGED <<rvars, dvars>>

websocketProxy ==
    \/ WsCall \/ LookupNext(Handler) \/ loadBalance(Handler) \/ WsLoadBalance
    \/ WsCheckHijacker \/ WsHijack \/ WsReqWrite \/ WsGo1 \/ WsGo2 \/ WsRecv
    \/ WsCloseCh \/ WsDeferSource \/ WsDeferTarget

\* One Read of io.Copy on the source of goroutine g.  It fails on a connection
\* the proxy has closed; it returns received data; once the remote end has
\* closed it returns io.EOF (or a reset error); otherwise it waits.
CopyRead(g) ==
    /\ cpc[g] = "Read"
    /\ \/ /\ conn[Src(g)] = "closed"
          /\ cpc' = [cpc EXCEPT ![g] = "Close"]
          /\ UNCHANGED <<inbuf, held>>
       \/ /\ conn[Src(g)] = "open"
          /\ inbuf[Src(g)] > 0
          /\ inbuf' = [inbuf EXCEPT ![Src(g)] = @ - 1]
          /\ held' = [held EXCEPT ![g] = 1]
          /\ cpc' = [cpc EXCEPT ![g] = "Write"]
       \/ /\ conn[Src(g)] = "open"
          /\ peer[Src(g)]
          /\ cpc' = [cpc EXCEPT ![g] = "Close"]
          /\ UNCHANGED <<inbuf, held>>
    /\ UNCHANGED <<wpc, conn, peer, sent, ch, status>>
    /\ UNCHANGED <<rvars, dvars>>

\* The Write of io.Copy to the destination; an error ends the copy.
CopyWrite(g) ==
    /\ cpc[g] = "Write"
    /\ \E ok \in BOOLEAN :
          /\ ConnWrite(Dst(g), ok)
          /\ cpc' = [cpc EXCEPT ![g] = IF ok THEN "Read" ELSE "Close"]
    /\ held' = [held EXCEPT ![g] = 0]
    /\ UNCHANGED <<wpc, conn, peer, inbuf, ch, status>>
    /\ UNCHANGED <<rvars, dvars>>

\* A copy goroutine that ends without closing its destination.
CopyCloseNothing(g) ==
    /\ cpc[g] = "Close"
    /\ cpc' = [cpc EXCEPT ![g] = "Send"]
    /\ UNCHANGED <<wpc, conn, peer, inbuf, sent, held, ch, status>>
    /\ UNCHANGED <<rvars, dvars>>
\* _ = targetConn.Close() / _ = sourceConn.Close(): the destination is closed.
CopyClose(g) ==
    /\ cpc[g] = "Close"
    /\ conn' = [conn EXCEPT ![Dst(g)] = "closed"]
    /\ cpc' = [cpc EXCEPT ![g] = "Send"]
    /\ UNCHANGED <<wpc, peer, inbuf, sent, held, ch, status>>
    /\ UNCHANGED <<rvars, dvars>>

\* ch <- nil: panics on a closed channel, waits while the buffer is full.
CopySend(g) ==
    /\ cpc[g] = "Send"
    /\ IF ch.closed
       THEN /\ cpc' = [cpc EXCEPT ![g] = "panic"]
            /\ UNCHANGED ch
       ELSE /\ ch.n < ChanCap
            /\ ch' = [ch EXCEPT !.n = @ + 1]
            /\ cpc' = [cpc EXCEPT ![g] = "done"]
    /\ UNCHANGED <<wpc, conn, peer, inbuf, sent, held, status>>
    /\ UNCHANGED <<rvars, dvars>>

Copy(g) == CopyRead(g) \/ CopyWrite(g) \/ CopyClose(g) \/ CopySend(g)

\* The remote end of connection c (the client for "source", the backend for
\* "target") sends data, reads what was written to it, or closes.
PeerSend(c) ==
    /\ conn[c] = "open"
    /\ ~peer[c]
    /\ inbuf[c] < MaxBuf
    /\ inbuf' = [inbuf EXCEPT ![c] = @ + 1]
    /\ UNCHANGED <<wpc, cpc, conn, peer, sent, held, ch, status>>
    /\ UNCHANGED <<rvars, dvars>>

PeerDrain(c) ==
    /\ ~peer[c]
    /\ sent[c] > 0
    /\ sent' = [sent EXCEPT ![c] = @ - 1]
    /\ UNCHANGED <<wpc, cpc, conn, peer, inbuf, held, ch, status>>
    /\ UNCHANGED <<rvars, dvars>>

PeerClose(c) ==
    /\ c = "source" \/ conn[c] # "none"
    /\ ~peer[c]
    /\ peer' = [peer EXCEPT ![c] = TRUE]
    /\ UNCHANGED <<wpc, cpc, conn, inbuf, sent, held, ch, status>>
    /\ UNCHANGED <<rvars, dvars>>

TunnelNext ==
    \/ websocketProxy
    \/ \E g \in Copies : Copy(g)
    \/ \E c \in Conns : PeerSend(c) \/ PeerDrain(c) \/ PeerClose(c)

\* The Go scheduler runs every goroutine that can take a step; a remote end
\* that has not closed keeps reading what it is sent.
TunnelFair ==
    /\ WF_vars(websocketProxy)
    /\ \A g \in Copies : WF_vars(Copy(g))
    /\ \A c \in Conns : WF_vars(PeerDrain(c))

TunnelSpec == Init /\ [][TunnelNext]_vars /\ TunnelFair

\* ------------------------------------- NewMultipleHostReverseProxy (handler)
\* Strings are sequences of characters.
Chars == {"/", ":", "a"}
\* The paths of a request URL: empty or starting with "/".
Paths ==
    {<<>>} \cup
    UNION { { <<"/">> \o t : t \in [1..n -> Chars] } : n \in 0..(MaxPath - 1) }

\* The header values considered (absent header: the empty string).
Connections ==
    { <<>>, <<"U","p","g","r","a","d","e">>, <<"u","p","g","r","a","d","e">>,
      <<"k","e","e","p","-","a","l","i","v","e">> }
Upgrades ==
    { <<>>, <<"w","e","b","s","o","c","k","e","t">>,
      <<"W","e","b","S","o","c","k","e","t">>, <<"h","2","c">> }

\* strings.ToLower
LowerOf ==
    [A |-> "a", B |-> "b", C |-> "c", D |-> "d", E |-> "e", F |-> "f", G |-> "g",
     H |-> "h", I |-> "i", J |-> "j", K |-> "k", L |-> "l", M |-> "m", N |-> "n",
     O |-> "o", P |-> "p", Q |-> "q", R |-> "r", S |-> "s", T |-> "t", U |-> "u",
     V |-> "v", W |-> "w", X |-> "x", Y |-> "y", Z |-> "z"]
ToLower(s) ==
    [k \in 1..Len(s) |-> IF s[k] \in DOMAIN LowerOf THEN LowerOf[s[k]] ELSE s[k]]

\* strings.Split(s, sep) for a one-character separator: the pieces between the
\* separators, always at least one piece.
RECURSIVE Split(_, _)
Split(s, sep) ==
    IF \A k \in 1..Len(s) : s[k] # sep THEN << s >>
    ELSE LET i == CHOOSE k \in 1..Len(s) :
                      s[k] = sep /\ \A j \in 1..(k - 1) : s[j] # sep
         IN  << SubSeq(s, 1, i - 1) >> \o Split(SubSeq(s, i + 1, Len(s)), sep)

\* strings.Join(parts, sep)
RECURSIVE Join(_, _)
Join(parts, sep) ==
    IF Len(parts) = 0 THEN <<>>
    ELSE IF Len(parts) = 1 THEN parts[1]
    ELSE parts[1] \o << sep >> \o Join(Tail(parts), sep)

\* extractNameVersion(target): name, version, err and the new target.Path.
extractNameVersion(path) ==
    LET p == IF Len(path) > 1 /\ path[1] = "/" THEN Tail(path) ELSE path
        tmp == Split(p, "/")
    IN  IF Len(tmp) < 2
        THEN [err |-> "Invalid path", name |-> <<>>, version |-> <<>>,
              path |-> path]
        ELSE [err |-> "nil", name |-> tmp[1], version |-> tmp[2],
              path |-> <<"/">> \o Join(SubSeq(tmp, 3, Len(tmp)), "/")]

Upgrade == <<"u","p","g","r","a","d","e">>
Websocket == <<"w","e","b","s","o","c","k","e","t">>

\* A check that compares the header values as they are.
IsWebsocketExact(h) ==
    /\ h.Connection = Upgrade
    /\ h.Upgrade = Websocket
\* IsWebsocket(req)
IsWebsocket(h) ==
    IF h.Connection = <<>> \/ ToLower(h.Connection) # Upgrade THEN FALSE
    ELSE IF h.Upgrade = <<>> \/ ToLower(h.Upgrade) # Websocket THEN FALSE
    ELSE TRUE

\* The port http.Transport appends to a host that names none.
Port == <<"8", "0">>

\* Transport.Dial(network, addr): the error, or the LoadBalance call it makes.
TransportDial(addr) ==
    LET a == Split(addr, ":")[1]
        tmp == Split(a, "/")
    IN  IF Len(tmp) # 2
        THEN [err |-> "ErrInvalidService", name |-> <<>>, version |-> <<>>]
        ELSE [err |-> "nil", name |-> tmp[1], version |-> tmp[2]]

\* A request has reached the handler NewMultipleHostReverseProxy returns.
ProxyInit ==
    /\ RegInit(<<>>, {})
    /\ TunnelInit
    /\ hpc = "ExtractNameVersion"
    /\ reqPath \in Paths
    /\ urlPath = reqPath
    /\ header \in [Connection : Connections, Upgrade : Upgrades]
    /\ nv = NoNV
    /\ route = "none"
    /\ urlHost = <<>>
    /\ dial = NoDial
    /\ hstatus = 0

\* name, version, err := ExtractNameVersion(req.URL)
\* err != nil: http.Error(w, err.Error(), http.StatusInternalServerError); return.
HExtract ==
    /\ hpc = "ExtractNameVersion"
    /\ LET r == extractNameVersion(urlPath)
       IN  /\ nv' = [name |-> r.name, version |-> r.version, err |-> r.err]
           /\ urlPath' = r.path
           /\ IF r.err # "nil"
              THEN /\ hstatus' = 500
                   /\ hpc' = "Returned"
              ELSE /\ hpc' = "IsWebsocket"
                   /\ UNCHANGED hstatus
    /\ UNCHANGED <<reqPath, header, route, urlHost, dial>>
    /\ UNCHANGED <<rvars, tvars>>

\* if IsWebsocket(req) { handler = websocketProxy(name, version, reg) }
\* else { handler = reverseProxy }; the handler then serves the request.
HRoute ==
    /\ hpc = "IsWebsocket"
    /\ IF IsWebsocket(header)
       THEN /\ route' = "websocketProxy"
            /\ hpc' = "Tunnel"
       ELSE /\ route' = "reverseProxy"
            /\ hpc' = "Director"
    /\ UNCHANGED <<reqPath, urlPath, header, nv, urlHost, dial, hstatus>>
    /\ UNCHANGED <<rvars, tvars>>

\* Director: req1.URL.Host = name + "/" + version
HDirector ==
    /\ hpc = "Director"
    /\ urlHost' = nv.name \o <<"/">> \o nv.version
    /\ hpc' = "Dial"
    /\ UNCHANGED <<reqPath, urlPath, header, nv, route, dial, hstatus>>
    /\ UNCHANGED <<rvars, tvars>>

\* The transport dials the host with the port appended; Transport.Dial either
\* fails with ErrInvalidService (the reverse proxy then answers 502) or calls
\* LoadBalance.
HDial ==
    /\ hpc = "Dial"
    /\ dial' = TransportDial(urlHost \o <<":">> \o Port)
    /\ IF dial'.err # "nil"
       THEN /\ hstatus' = 502
            /\ hpc' = "Returned"
       ELSE /\ hpc' = "LoadBalance"
            /\ UNCHANGED hstatus
    /\ UNCHANGED <<reqPath, urlPath, header, nv, route, urlHost>>
    /\ UNCHANGED <<rvars, tvars>>

ProxyNext == HExtract \/ HRoute \/ HDirector \/ HDial

ProxySpec == ProxyInit /\ [][ProxyNext]_vars

\* ================================================================ claims
RegView == [pr \in Pairs |-> View(pr[1], pr[2])]
Distinct(s) == \A j, k \in 1..Len(s) : j # k => s[j] # s[k]
Addresses == Endpoints \cup {Blank}
\* The elements the local list of loadBalance call p shows.
Candidates(p) == Elems(loc[p].endpoints)
HasResult(p) == call[p].op = "loadBalance" /\ pc[p] \in {"Pick", "Dial", "done"}
                  /\ res[p].err # "ErrServiceNotFound"

\* C1: no step of loadBalance changes what Lookup returns for any pair: the
\* registry's contents are changed by Add and Delete alone.
C1_LoadBalanceLeavesRegistry ==
    [][(\E p \in Procs : pc[p] \in {"Pick", "Dial"} /\ pc'[p] # pc[p])
         => RegView' = RegView]_vars

\* C2: with the lock free, Lookup finds no pair that holds zero endpoints: an
\* emptied entry is reported as ErrServiceNotFound like an absent one.
C2_EmptyIsNotFound ==
    writer = 0 => \A pr \in Pairs : RegView[pr].ok => Len(RegView[pr].targets) > 0

C5_LookupReadsOneInstant ==
    \A p \in Procs :
        LET pr == <<call[p].name, call[p].version>>
        IN  /\ (call[p].op = "loadBalance" /\ pc[p] = "Pick"
                  /\ obs[p].dialed = <<>>)
                 => [ok |-> TRUE, targets |-> Candidates(p)] \in hist[pr]
            /\ (call[p].op = "Lookup" /\ pc[p] = "done" /\ res[p].err = "nil")
                 => [ok |-> TRUE, targets |-> Elems(res[p].targets)] \in hist[pr]

\* C6: a loadBalance call whose Lookup returned distinct endpoints that all
\* refuse the connection ends with NoEndpointAvailable after dialing each of
\* them exactly once.
C6_AllFailEachOnce ==
    \A p \in Procs :
        (HasResult(p) /\ pc[p] = "done" /\ Distinct(obs[p].snap)
           /\ \A k \in 1..Len(obs[p].snap) : obs[p].snap[k] \notin alive)
        => /\ res[p].err = "NoEndpointAvailable"
           /\ Len(obs[p].dialed) = Len(obs[p].snap)
           /\ \A k \in 1..Len(obs[p].snap) : Count(obs[p].dialed, obs[p].snap[k]) = 1

\* C7: with the entry [A, B, C], A and B refusing and C accepting, a loadBalance
\* call returns a connection to C after at most 3 dials, C being the last one,
\* and has called Failure for A and B only, at most once each.
C7_ThirdEndpointServes ==
    \A p \in Procs :
        (HasResult(p) /\ pc[p] = "done" /\ obs[p].snap = <<"A", "B", "C">>
           /\ alive = {"C"})
        => /\ res[p].err = "nil" /\ res[p].conn = "C"
           /\ Len(obs[p].dialed) <= 3
           /\ obs[p].dialed = Append(obs[p].failure, "C")
           /\ \A k \in 1..Len(obs[p].failure) : obs[p].failure[k] \in {"A", "B"}
           /\ Distinct(obs[p].failure)

\* C8: a loadBalance call dials only what its own Lookup returned, no address
\* more often than that result held it, and its candidates are that result less
\* the addresses the call itself saw fail.
C8_RetryStatePrivate ==
    \A p \in Procs :
        HasResult(p) =>
            \A x \in Addresses :
                /\ Count(obs[p].dialed, x) <= Count(obs[p].snap, x)
                /\ pc[p] = "Pick" =>
                     Count(Candidates(p), x)
                        = Count(obs[p].snap, x) - Count(obs[p].failure, x)

\* C9: with the lock free, every pair's Lookup outcome is what the Add (and
\* Delete) calls applied so far determine, in the order they took the lock: no
\* Add is lost and no pair is left half created.
C9_NoLostUpdate ==
    writer = 0 => \A pr \in Pairs : RegView[pr] = ideal[pr]

\* C9 witness: two Add calls on different pairs of a service that did not exist
\* have both returned, and both pairs are found.
C9_Witness ==
    /\ \A p \in Procs : call[p].op = "Add" /\ pc[p] = "done"
    /\ \E p, q \in Procs : call[p].version # call[q].version
    /\ \A pr \in Pairs : RegView[pr].ok /\ Len(RegView[pr].targets) = 1

\* Both copy goroutines have been started.
TunnelRunning == cpc[1] # "none" /\ cpc[2] # "none"
TunnelOver ==
    /\ wpc = "Returned"
    /\ \A g \in Copies : cpc[g] = "done"
    /\ \A c \in Conns : conn[c] = "closed"

PastJoin == wpc \in {"CloseCh", "DeferSource", "DeferTarget", "Returned"}
CopyStarted == \E g \in Copies : cpc[g] # "none"

\* C11: a handler that has started its copies is past the join (and returns)
\* only when both copies have signaled completion; while a copy still runs,
\* every closed connection was closed by the copy writing to it, never by the
\* handler: the end of one copy does not make the handler stop the other.
C11_JoinWaitsForBoth ==
    /\ (CopyStarted /\ PastJoin) => \A g \in Copies : cpc[g] = "done"
    /\ (CopyStarted /\ \E g \in Copies : cpc[g] # "done") =>
           \A c \in Conns : conn[c] = "closed" =>
               \E g \in Copies : Dst(g) = c /\ cpc[g] \in {"Send", "done"}
\* One copy has signaled completion, the other still waits in Read, and the
\* handler waits for the second signal.
C11_Witness ==
    /\ wpc = "Recv2"
    /\ \E g \in Copies : cpc[g] = "done" /\ cpc[3 - g] = "Read"

\* C12: when the handler has returned, on whichever path, no connection it
\* obtained is still open: the backend connection LoadBalance gave it is closed,
\* and so is the client connection if Hijack gave it one.
C12_ClosedOnEveryExit ==
    wpc = "Returned" => \A c \in Conns : conn[c] # "open"
\* The handler has returned on the path where w is no http.Hijacker: it had a
\* backend connection and no client connection.
C12_Witness ==
    /\ wpc = "Returned"
    /\ status = 500
    /\ conn["target"] = "closed"
    /\ conn["source"] = "none"

\* C13: when LoadBalance gave the tunnel no backend connection, the handler has
\* answered with status 502 (Bad Gateway) and has stopped: the client
\* connection was not hijacked and no copy was started.
C13_BadGatewayWithoutBackend ==
    (wpc = "Returned" /\ conn["target"] = "none") =>
        /\ status = 502
        /\ conn["source"] = "none"
        /\ \A g \in Copies : cpc[g] = "none"

\* The non-empty segments of a path.
Segments(path) == SelectSeq(Split(path, "/"), LAMBDA s : s # <<>>)
Extracted == hpc # "ExtractNameVersion"

\* C14: extraction succeeds exactly for the paths with at least two non-empty
\* segments; it then yields the first two segments as name and version, both
\* non-empty, and rewrites the path to "/" plus the remaining segments; for
\* every other path it fails.
C14_ExtractionTwoSegments ==
    Extracted =>
        LET segs == Segments(reqPath)
        IN  /\ (nv.err = "nil") <=> (Len(segs) >= 2)
            /\ nv.err = "nil" =>
                  /\ nv.name # <<>>
                  /\ nv.version # <<>>
                  /\ nv.name = segs[1]
                  /\ nv.version = segs[2]
                  /\ urlPath = <<"/">> \o Join(SubSeq(segs, 3, Len(segs)), "/")

Routed == route # "none"
ConnectionIsUpgrade == ToLower(header.Connection) = Upgrade

\* C15 (as stated): a request is routed to the tunnel exactly when its
\* Connection header equals "Upgrade" case-insensitively and its Upgrade header
\* is non-empty.
C15_UpgradeAnyProtocol ==
    Routed =>
        ((route = "websocketProxy") <=>
            (ConnectionIsUpgrade /\ header.Upgrade # <<>>))
\* C15 (amended): a request is routed to the tunnel exactly when its Connection
\* header equals "upgrade" and its Upgrade header equals "websocket", both
\* case-insensitively; every other request goes to the reverse proxy.
C15_UpgradeWebsocketOnly ==
    Routed =>
        /\ route \in {"websocketProxy", "reverseProxy"}
        /\ (route = "websocketProxy") <=>
              (ConnectionIsUpgrade /\ ToLower(header.Upgrade) = Websocket)
\* A request with "Connection: Upgrade" and "Upgrade: WebSocket" was routed to
\* the tunnel.
C15_Witness ==
    /\ route = "websocketProxy"
    /\ header.Connection = <<"U","p","g","r","a","d","e">>
    /\ header.Upgrade = <<"W","e","b","S","o","c","k","e","t">>

\* C16: a Lookup that reads the registry while its (name, version) has no
\* entry (unknown service, or unknown version of a known service) fails with
\* ErrServiceNotFound and leaves the registry as it is; called from
\* loadBalance, that error is the call's result at once: nothing was dialed and
\* the Failure hook was not invoked.
C16_AbsentIsNotFound ==
    /\ [](\A p \in Procs :
            (pc[p] = "done" /\ res[p].err = "ErrServiceNotFound") =>
                (obs[p].dialed = <<>> /\ obs[p].failure = <<>>))
    /\ [][\A p \in Procs :
            (/\ pc[p] = "LookupRead"
             /\ pc'[p] # "LookupRead"
             /\ ~Entry(call[p].name, call[p].version).ok) =>
                (/\ pc'[p] = "done"
                 /\ res'[p].err = "ErrServiceNotFound"
                 /\ <<reg', maps', heap'>> = <<reg, maps, heap>>)]_vars
\* A loadBalance call for an unknown version of a known service has returned
\* ErrServiceNotFound.
C16_Witness ==
    \E p \in Procs :
        /\ call[p].op = "loadBalance"
        /\ pc[p] = "done"
        /\ res[p].err = "ErrServiceNotFound"
        /\ reg[call[p].name] # 0

Dialed == dial.err # "none"

\* C17: when the transport dials the host the Director built from an extracted
\* (name, version), Transport.Dial parses the same name and the same version
\* back and calls LoadBalance with them; it fails with ErrInvalidService only
\* for an address that is not made of exactly two "/"-separated parts.
C17_SentinelRoundTrip ==
    Dialed =>
        /\ dial.err = "ErrInvalidService" => Len(Split(urlHost, "/")) # 2
        /\ Len(Split(urlHost, "/")) = 2 =>
              /\ dial.err = "nil"
              /\ dial.name = nv.name
              /\ dial.version = nv.version

\* Process p takes the step.
Steps(p) == pc'[p] # pc[p] \/ loc'[p] # loc[p]
Own(p) == <<call[p].name, call[p].version>>

\* C18: every step of an Add or a Delete on (name, version) leaves what Lookup
\* returns for every other pair as it was; every step of a Delete leaves the
\* endpoints of its pair other than the deleted one in their order, each as
\* often as before; no step of a Lookup or of the default Failure hook changes
\* the registry (its maps, its slices, their arrays).
C18_RegistryFrame ==
    [][\A p \in Procs : Steps(p) =>
          /\ call[p].op \in {"Add", "Delete"} =>
                \A pr \in Pairs \ {Own(p)} : RegView'[pr] = RegView[pr]
          /\ call[p].op = "Delete" =>
                Filter(RegView'[Own(p)].targets, call[p].endpoint)
                    = Filter(RegView[Own(p)].targets, call[p].endpoint)
          /\ call[p].op \in {"Lookup", "Failure"} =>
                <<reg', maps', heap'>> = <<reg, maps, heap>>]_vars
\* A Delete of A has returned and left B, C of the entry A, B, C, while the
\* other version of the service has endpoints of its own.
C18_Witness ==
    \E p \in Procs :
        /\ call[p].op = "Delete"
        /\ call[p].endpoint = "A"
        /\ pc[p] = "done"
        /\ obs[p].pre.targets = <<"A", "B", "C">>
        /\ RegView[Own(p)].targets = <<"B", "C">>
        /\ \E pr \in Pairs \ {Own(p)} : RegView[pr].targets # <<>>

\* Process p is between the Lock and the Unlock of an Add or a Delete /
\* between the RLock and the RUnlock of a Lookup.
InWrite(p) == pc[p] \in {"AddService", "AddCreate", "AddAppend", "AddUnlock",
                         "DelService", "DelScan", "DelUnlock"}
InRead(p) == pc[p] = "LookupRead"
Holds(p) == writer = p \/ p \in readers
Acquires(p) == ~Holds(p) /\ (writer' = p \/ p \in readers')
Releases(p) == Holds(p) /\ ~(writer' = p \/ p \in readers')

\* C20: with concurrent Lookup, Add, Delete and Failure calls, a call holds the
\* lock exactly between its acquisition and its release and not when it has
\* returned; it acquires the lock as its first step only and returns right
\* after the release, so at most once; a writer holds the lock with no other
\* writer and no reader; and under fair scheduling every call that has started
\* returns (so Delete's restarted scan ends).
C20_LockDeadlockFree ==
    /\ [](\A p \in Procs :
            /\ Holds(p) <=> (InWrite(p) \/ InRead(p))
            /\ InWrite(p) => (writer = p /\ readers = {})
            /\ InWrite(p) => \A q \in Procs \ {p} : ~InWrite(q) /\ ~InRead(q))
    /\ [][\A p \in Procs :
            /\ Acquires(p) => pc[p] \in {"AddLock", "DelLock", "LookupRLock"}
            /\ Releases(p) => pc'[p] = "done"]_vars
    /\ \A p \in Procs : (pc[p] \notin {"idle", "done"}) ~> (pc[p] = "done")
\* A Delete for an unknown service has returned, and another call holds the
\* lock it released.
C20_Witness ==
    \E p \in Procs : \E q \in Procs \ {p} :
        /\ call[p].op = "Delete"
        /\ pc[p] = "done"
        /\ reg[call[p].name] = 0
        /\ writer = q

\* The signals the handler has received from ch.
Received ==
    IF wpc = "Recv2" THEN 1
    ELSE IF CopyStarted /\ PastJoin THEN 2
    ELSE 0
Signaled == {g \in Copies : cpc[g] = "done"}

\* C19: each copy goroutine sends one signal (the signals sent are those of the
\* goroutines that are done); a goroutine about to send finds room in ch, and
\* never finds it closed; ch is closed only when both signals were received;
\* when the handler has returned no goroutine still runs; and on a return
\* before the copies (ch was never closed) no goroutine was started.
C19_JoinChannelSafe ==
    /\ ch.n + Received = Cardinality(Signaled)
    /\ \A g \in Copies : cpc[g] # "panic"
    /\ \A g \in Copies : cpc[g] = "Send" => (ch.n < ChanCap /\ ~ch.closed)
    /\ ch.closed => (Received = 2 /\ ch.n = 0 /\ Signaled = Copies)
    /\ wpc = "Returned" => \A g \in Copies : cpc[g] \in {"none", "done"}
    /\ (wpc = "Returned" /\ ~ch.closed) => \A g \in Copies : cpc[g] = "none"
\* One goroutine has sent its signal, the other is about to send, and the
\* handler has received nothing yet.
C19_Witness ==
    /\ wpc = "Recv1"
    /\ ch.n = 1
    /\ \E g \in Copies : cpc[g] = "Send"
====
